---------------------------- MODULE Spec2Model ----------------------------
(***************************************************************************)
(* CRXBot.py: a bot that lists the preprints of a repository, and for each *)
(* preprint whose id is not in id_log.txt composes a tweet, posts it       *)
(* (optionally with an image) and appends the id to id_log.txt.            *)
(*                                                                         *)
(* Text is modelled as sequences of one-character strings, so that         *)
(* str(), strip(), lower(), replace() and len() are computed, not assumed. *)
(***************************************************************************)
EXTENDS Integers, Sequences, FiniteSets, TLC

(***************************************************************************)
(* Bounds of the model.                                                    *)
(***************************************************************************)
\* runs of the script that share one id_log.txt
MaxRuns == 2
\* preprints the repository publishes in all
MaxArticles == 4
\* stand-in for chemRxivAPI.pagesize (100): items per listing page
PageSize == 2
\* stand-ins for sys.getsizeof(doc): the size in bytes of the generator object,
\* which depends on the interpreter and not on the listing.  It is less than a
\* page for some (88 for CPython 3.7, against a page of 100) and more than a
\* page for others (112 for CPython 3.8, 176 for CPython 3.11)
GetSizeOfSmall == 1
GetSizeOf == 3

(***************************************************************************)
(* Program constants.                                                      *)
(***************************************************************************)
\* "the length we are checking for here is actually 280-25=255"
HashtagBudget == 255
\* "An url is always 23 characters"
UrlTokenWidth == 23
\* realtweetlength > 280
TweetLimit == 280

(***************************************************************************)
(* Text helpers.                                                           *)
(***************************************************************************)
NL == "\n"

Digits == <<"0", "1", "2", "3", "4", "5", "6", "7", "8", "9">>

\* str(l['id']) of a non-negative integer id
RECURSIVE Str(_)
Str(n) ==
    IF n < 10 THEN <<Digits[n + 1]>>
    ELSE Str(n \div 10) \o <<Digits[(n % 10) + 1]>>

\* a text of n copies of the character c
Rep(c, n) == [k \in 1..n |-> c]

UpperCase == <<"A", "B", "C", "D", "E", "F", "G", "H", "I", "J", "K", "L", "M",
               "N", "O", "P", "Q", "R", "S", "T", "U", "V", "W", "X", "Y", "Z">>
LowerCase == <<"a", "b", "c", "d", "e", "f", "g", "h", "i", "j", "k", "l", "m",
               "n", "o", "p", "q", "r", "s", "t", "u", "v", "w", "x", "y", "z">>

\* str.lower() on one character
LowerChar(c) ==
    IF \E k \in 1..26 : UpperCase[k] = c
    THEN LowerCase[CHOOSE k \in 1..26 : UpperCase[k] = c]
    ELSE c

\* str.lower()
Lower(s) == [k \in 1..Len(s) |-> LowerChar(s[k])]

\* str.replace(' ', '-')
ReplaceSpace(s) == [k \in 1..Len(s) |-> IF s[k] = " " THEN "-" ELSE s[k]]

\* str.endswith(suffix)
EndsWith(s, suffix) ==
    /\ Len(s) >= Len(suffix)
    /\ SubSeq(s, Len(s) - Len(suffix) + 1, Len(s)) = suffix

\* str.strip('\n'): leading and trailing line breaks removed
RECURSIVE StripNL(_)
StripNL(s) ==
    IF s = <<>> THEN s
    ELSE IF s[1] = NL THEN StripNL(Tail(s))
    ELSE IF s[Len(s)] = NL THEN StripNL(SubSeq(s, 1, Len(s) - 1))
    ELSE s

\* list(f) of a text file: its lines, each with its line break kept
RECURSIVE FileLines(_)
FileLines(s) ==
    IF s = <<>> THEN <<>>
    ELSE IF \E k \in 1..Len(s) : s[k] = NL
         THEN LET k == CHOOSE j \in 1..Len(s) :
                           s[j] = NL /\ \A h \in 1..(j - 1) : s[h] # NL
              IN  <<SubSeq(s, 1, k)>> \o FileLines(SubSeq(s, k + 1, Len(s)))
         ELSE <<s>>

\* lines 280-288: id_log = list(f), every entry stripped of '\n'
LoadIdLog(f) == [k \in 1..Len(FileLines(f)) |-> StripNL(FileLines(f)[k])]

\* line 314: preprint_id in id_log
InIdLog(idstr, log) == \E k \in 1..Len(log) : log[k] = idstr

(***************************************************************************)
(* get_preprint_image_url (lines 19-33).  The answer of api.files is a     *)
(* JSON value: [isList |-> TRUE, items |-> <<file records>>], or a value   *)
(* that is no list.                                                        *)
(***************************************************************************)
PNG == <<".", "p", "n", "g">>
JPG == <<".", "j", "p", "g">>

\* is_link_only not looked at: a linked image is taken too
RECURSIVE FirstImageUrlLinksToo(_)
FirstImageUrlLinksToo(items) ==
    IF items = <<>> THEN <<>>
    ELSE LET preprint_file == Head(items)
             filename == Lower(preprint_file.name)
         IN  IF EndsWith(filename, PNG) \/ EndsWith(filename, JPG)
             THEN preprint_file.download_url
             ELSE FirstImageUrlLinksToo(Tail(items))

\* lines 24-33: the loop over the file records
RECURSIVE FirstImageUrl(_)
FirstImageUrl(items) ==
    IF items = <<>> THEN <<>>
    ELSE LET preprint_file == Head(items)
             filename == Lower(preprint_file.name)
         IN  IF preprint_file.is_link_only THEN FirstImageUrl(Tail(items))
             ELSE IF EndsWith(filename, PNG) \/ EndsWith(filename, JPG)
                  THEN preprint_file.download_url
                  ELSE FirstImageUrl(Tail(items))

get_preprint_image_url(files) ==
    IF ~files.isList THEN <<>> ELSE FirstImageUrl(files.items)

(***************************************************************************)
(* prepare_tweet (lines 70-106).  It returns the tweet text, or Python's   *)
(* False, modelled as a value that is no text (every element of a text is  *)
(* one character).                                                         *)
(***************************************************************************)
PyFalse == <<"False">>

CoWorkers == <<" ", "&", " ", "c", "o", "-", "w", "o", "r", "k", "e", "r", "s">>

\* line 93: hashtag = " #" + tag.lower().replace(' ', '-')
Hashtag(tag) == <<" ", "#">> \o ReplaceSpace(Lower(tag))

\* the loop left at the first hashtag that does not fit (a break)
RECURSIVE AddHashtagsUntilOverflow(_, _)
AddHashtagsUntilOverflow(tweetText, tags) ==
    IF tags = <<>> THEN tweetText
    ELSE IF Len(tweetText) + Len(Hashtag(Head(tags))) <= HashtagBudget
         THEN AddHashtagsUntilOverflow(tweetText \o Hashtag(Head(tags)),
                                       Tail(tags))
         ELSE tweetText

\* lines 92-96: append every hashtag that keeps the text within 255
RECURSIVE AddHashtags(_, _)
AddHashtags(tweetText, tags) ==
    IF tags = <<>> THEN tweetText
    ELSE IF Len(tweetText) + Len(Hashtag(Head(tags))) <= HashtagBudget
         THEN AddHashtags(tweetText \o Hashtag(Head(tags)), Tail(tags))
         ELSE AddHashtags(tweetText, Tail(tags))

\* lines 74-88: title + " by " + last author (+ " & co-workers")
TweetHead(title, authors) ==
    title \o <<" ", "b", "y", " ">> \o authors[Len(authors)].full_name
          \o (IF Len(authors) > 1 THEN CoWorkers ELSE <<>>)

\* the length test left out
UncheckedTweet(tweetText, preprintURL) == tweetText

\* lines 98-106: the URL is added, then the length is checked
CheckedTweet(tweetText, preprintURL) ==
    LET realtweetlength == Len(tweetText) - Len(preprintURL) + UrlTokenWidth
    IN  IF realtweetlength > TweetLimit THEN PyFalse ELSE tweetText

prepare_tweet(title, authors, preprintURL, tags) ==
    CheckedTweet(AddHashtags(TweetHead(title, authors), tags)
                     \o <<NL, NL>> \o preprintURL,
                 preprintURL)

(***************************************************************************)
(* The repository (figshare) and its preprints.  The k-th published        *)
(* preprint has id 8 + k (one and two digit ids); its record and its file  *)
(* list are fixed by k, and cover: a tweet with an image, a title too long *)
(* to tweet, an answer of api.files that is no list, and tags of which     *)
(* only some fit.                                                          *)
(***************************************************************************)
ArticleId(k) == 8 + k

ArticleIds == {ArticleId(k) : k \in 1..MaxArticles}

\* line 12
doiRootURL == <<"h", "t", "t", "p", "s", ":", "/", "/",
                "d", "o", "i", ".", "o", "r", "g", "/">>

Smith == [full_name |-> <<"A", ".", " ", "S", "m", "i", "t", "h">>]
Jones == [full_name |-> <<"B", ".", " ", "J", "o", "n", "e", "s">>]

TagOrganic == <<"O", "r", "g", "a", "n", "i", "c", " ",
                "C", "h", "e", "m", "i", "s", "t", "r", "y">>
TagCatalysis == <<"C", "a", "t", "a", "l", "y", "s", "i", "s">>
TagNMR == <<"N", "M", "R">>

\* the JSON of articles/{id}
ArticleRecord(id) ==
    LET kind == (id - 8) % 4
    IN  [id      |-> id,
         title   |-> CASE kind = 1 -> Rep("x", 12)
                       [] kind = 2 -> Rep("y", 250)
                       [] kind = 3 -> Rep("z", 20)
                       [] OTHER    -> Rep("w", 225),
         authors |-> CASE kind = 1 -> <<Smith, Jones>>
                       [] kind = 2 -> <<Smith>>
                       [] kind = 3 -> <<Jones>>
                       [] OTHER    -> <<Jones, Smith>>,
         doi     |-> <<"1", "0", ".", "1", "/">> \o Str(id),
         tags    |-> CASE kind = 1 -> <<TagOrganic, TagCatalysis>>
                       [] kind = 2 -> <<TagNMR>>
                       [] kind = 3 -> <<>>
                       [] OTHER    -> <<TagOrganic, TagNMR>>]

FileRec(name, link, url) ==
    [name |-> name, is_link_only |-> link, download_url |-> url]

\* the JSON of articles/{id}/files
ArticleFiles(id) ==
    LET kind == (id - 8) % 4
        url  == <<"f", "/">> \o Str(id)
    IN  CASE kind = 1 ->
               [isList |-> TRUE,
                items  |-> <<FileRec(<<"a", ".", "s", "v", "g">>, FALSE, <<"s">>),
                             FileRec(<<"b", ".", "P", "N", "G">>, FALSE, url)>>]
          [] kind = 2 ->
               [isList |-> TRUE,
                items  |-> <<FileRec(<<"c", ".", "j", "p", "g">>, FALSE, url)>>]
          [] kind = 3 ->
               [isList |-> FALSE, items |-> <<>>]
          [] OTHER ->
               [isList |-> TRUE,
                items  |-> <<FileRec(<<"d", ".", "p", "n", "g">>, TRUE, <<>>),
                             FileRec(<<"e", ".", "p", "d", "f">>, FALSE, url)>>]

(***************************************************************************)
(* State.                                                                  *)
(***************************************************************************)
VARIABLES
    repo,            \* the repository's listing, newest preprint first
    id_log_txt,      \* the content of id_log.txt
    temp_png,        \* whether temp.png exists
    tweets,          \* per preprint, the posts made: [status, media]
    runs,            \* runs of the script started so far
    pc,              \* where the script is
    usetwitter,      \* args['usetwitter']
    id_log,          \* the list loaded from id_log.txt at start-up
    doc,             \* the generator of api.all_preprints(): [n, page]
    numberPreprints, \* sys.getsizeof(doc)
    i,               \* summaries taken from doc by the for loop
    preprint_id,     \* l['id'] of the current summary
    current_preprint,
    thumbnailURL,
    tweetText,
    include_image,   \* tweet_image's local
    preprints_added,
    preprints_tweeted,
    preprints_tweeted_FAILED,
    exc,             \* the exception that ended the run, if any
    log,             \* lines written by write_log since the current summary was taken
    summary,         \* the line 377 summary of the run, once written
    trace,           \* what the current run did so far, in order
    past,            \* what the earlier runs did: ids committed, ids rejected,
                     \* and the timeline they left
    fnArgs,          \* arguments of a function applied on its own
    fnResult         \* its result

vars == <<repo, id_log_txt, temp_png, tweets, runs, pc, usetwitter, id_log,
          doc, numberPreprints, i, preprint_id, current_preprint,
          thumbnailURL, tweetText, include_image, preprints_added,
          preprints_tweeted, preprints_tweeted_FAILED, exc, log, summary,
          trace, past, fnArgs, fnResult>>

envVars == <<repo, id_log_txt, temp_png, tweets>>
runVars == <<runs, usetwitter, id_log, numberPreprints>>
loopVars == <<doc, i, preprint_id>>
articleVars == <<current_preprint, thumbnailURL, tweetText, include_image>>
counterVars == <<preprints_added, preprints_tweeted, preprints_tweeted_FAILED>>
fnVars == <<fnArgs, fnResult>>

NoRecord == [id |-> 0, title |-> <<>>, authors |-> <<>>, doi |-> <<>>,
             tags |-> <<>>]

\* a line of activity_log.txt: what is said, and the text and number in it
LogLine(msg, text, n) == [msg |-> msg, text |-> text, n |-> n]

\* an entry of trace: ev was done for preprint a
Event(a, ev) == [id |-> a, ev |-> ev]

\* trace with ev for the current preprint added
Did(ev) == Append(trace, Event(preprint_id, ev))

\* the ids for which the current run did ev
IdsWith(ev) == {trace[k].id : k \in {j \in DOMAIN trace : trace[j].ev = ev}}

InitProgram ==
    /\ repo = <<>>
    /\ id_log_txt = <<>>
    /\ temp_png = FALSE
    /\ tweets = [a \in ArticleIds |-> [status |-> 0, media |-> 0]]
    /\ runs = 0
    /\ pc = "idle"
    /\ usetwitter = FALSE
    /\ id_log = <<>>
    /\ doc = [n |-> 0, page |-> <<>>]
    /\ numberPreprints = 0
    /\ i = 0
    /\ preprint_id = 0
    /\ current_preprint = NoRecord
    /\ thumbnailURL = <<>>
    /\ tweetText = <<>>
    /\ include_image = FALSE
    /\ preprints_added = 0
    /\ preprints_tweeted = 0
    /\ preprints_tweeted_FAILED = 0
    /\ exc = "none"
    /\ log = <<>>
    /\ summary = <<>>
    /\ trace = <<>>
    /\ past = [committed |-> {}, rejected |-> {}, tweets |-> tweets]

Init ==
    /\ InitProgram
    /\ fnArgs = <<>>
    /\ fnResult = <<>>

(***************************************************************************)
(* The environment: the repository publishes a preprint, which goes to the *)
(* front of the listing, at any moment (also between two page requests).   *)
(* Only a page request reads the listing, so a publication made while the  *)
(* script works on a preprint is taken when the script is back at the head *)
(* of its loop: the request sees the same listing either way.              *)
(***************************************************************************)
Publish ==
    /\ Len(repo) < MaxArticles
    /\ pc \in {"idle", "loop"}
    /\ repo' = <<ArticleId(Len(repo) + 1)>> \o repo
    /\ UNCHANGED <<id_log_txt, temp_png, tweets, pc, exc, log, summary>>
    /\ UNCHANGED <<runVars, loopVars, articleVars, counterVars, fnVars>>
    /\ UNCHANGED <<trace, past>>

(***************************************************************************)
(* Start-up (lines 216-302).  trace and past are history variables: they   *)
(* record what the script did and are read by no action.                   *)
(***************************************************************************)
Stopped == pc \in {"idle", "done", "aborted", "exit1"}

\* a new process: no variable of the run before is left, and what that run did
\* is history
NewProcess(live) ==
    /\ usetwitter' = live
    /\ doc' = [n |-> 0, page |-> <<>>]
    /\ i' = 0
    /\ preprint_id' = 0
    /\ current_preprint' = NoRecord
    /\ thumbnailURL' = <<>>
    /\ tweetText' = <<>>
    /\ include_image' = FALSE
    /\ preprints_added' = 0
    /\ preprints_tweeted' = 0
    /\ preprints_tweeted_FAILED' = 0
    /\ exc' = "none"
    /\ summary' = <<>>
    /\ trace' = <<>>
    /\ past' = [committed |-> past.committed \cup IdsWith("commit"),
                rejected  |-> past.rejected \cup IdsWith("rejected"),
                tweets    |-> tweets]

\* line 297: what sys.getsizeof(doc) can be
SizesOfDoc == {GetSizeOfSmall, GetSizeOf}

\* the script is started; both authentications succeed
Startup(live) ==
    /\ Stopped
    /\ runs < MaxRuns
    /\ runs' = runs + 1
    /\ NewProcess(live)
    /\ id_log' = LoadIdLog(id_log_txt)
    /\ numberPreprints' \in SizesOfDoc
    /\ log' = <<>>
    /\ pc' = "loop"
    /\ UNCHANGED <<envVars, fnVars>>

\* lines 272-277: the figshare token is refused, sys.exit(1) before id_log is
\* loaded; runs counts the runs that got past this point
StartupAuthFails(live) ==
    /\ Stopped
    /\ runs < MaxRuns
    /\ NewProcess(live)
    /\ id_log' = <<>>
    /\ numberPreprints' = 0
    /\ log' = <<LogLine("Authentication did not succeed", <<>>, 0)>>
    /\ pc' = "exit1"
    /\ UNCHANGED <<envVars, runs, fnVars>>

(***************************************************************************)
(* chemRxivAPI.query_generator (lines 147-167) behind next(doc).  doc.page *)
(* holds what is left of the page being yielded from; doc.n is the offset  *)
(* of the next request (n += pagesize, done here when the page arrives:    *)
(* nothing reads n in between).                                            *)
(***************************************************************************)
\* the page the repository answers for offset n
PageAt(listing, n) ==
    IF n >= Len(listing) THEN <<>>
    ELSE SubSeq(listing, n + 1,
                IF n + PageSize <= Len(listing) THEN n + PageSize
                ELSE Len(listing))

\* whether next(doc) has to request a page
NeedsPage(d) == d.page = <<>>

\* the items next(doc) can yield from, after the request if one is needed
Available(d, listing) == IF NeedsPage(d) THEN PageAt(listing, d.n) ELSE d.page

\* doc after next(doc) has yielded
Advance(d, listing) ==
    [n    |-> IF NeedsPage(d) THEN d.n + PageSize ELSE d.n,
     page |-> Tail(Available(d, listing))]

(***************************************************************************)
(* The main loop (lines 306-377).                                          *)
(***************************************************************************)
\* the id compared as a line of the file, its line break kept
ProcessedUnstripped(l, loaded) == InIdLog(Str(l) \o <<NL>>, loaded)

\* lines 310-314: preprint_id = str(l['id']); preprint_id in id_log
Processed(l, loaded) == InIdLog(Str(l), loaded)

Abort(e) ==
    /\ exc' = e
    /\ pc' = "aborted"

\* lines 306-317: next(doc) yields a summary; its id is looked up in id_log
TakeSummary ==
    /\ pc = "loop"
    /\ i < numberPreprints
    /\ Available(doc, repo) # <<>>
    /\ LET l == Head(Available(doc, repo))
       IN  /\ preprint_id' = l
           /\ IF Processed(l, id_log)
              THEN /\ pc' = "loop"
                   /\ log' = <<>>
              ELSE /\ pc' = "detail"
                   /\ log' = <<LogLine("New preprint found!", <<>>, 0)>>
    /\ doc' = Advance(doc, repo)
    /\ i' = i + 1
    /\ trace' = Append(trace, Event(Head(Available(doc, repo)),
                                    "summary"))
    /\ UNCHANGED <<envVars, runVars, articleVars, counterVars, exc, summary,
                   fnVars>>
    /\ UNCHANGED past

\* lines 162-164, 308: the page is empty, the generator returns, and next(doc)
\* raises StopIteration, which nothing catches
ListingExhausted ==
    /\ pc = "loop"
    /\ i < numberPreprints
    /\ Available(doc, repo) = <<>>
    /\ Abort("StopIteration")
    /\ UNCHANGED <<envVars, runVars, loopVars, articleVars, counterVars, log,
                   summary, fnVars>>
    /\ UNCHANGED <<trace, past>>

\* line 154: the page request fails, raise_for_status raises
ListingFails ==
    /\ pc = "loop"
    /\ i < numberPreprints
    /\ NeedsPage(doc)
    /\ Abort("HTTPError")
    /\ UNCHANGED <<envVars, runVars, loopVars, articleVars, counterVars, log,
                   summary, fnVars>>
    /\ UNCHANGED <<trace, past>>

\* line 377: range(numberPreprints) is used up
WriteSummary ==
    /\ pc = "loop"
    /\ i = numberPreprints
    /\ summary' = <<preprints_added, preprints_tweeted, preprints_tweeted_FAILED>>
    /\ pc' = "done"
    /\ UNCHANGED <<envVars, runVars, loopVars, articleVars, counterVars, exc,
                   log, fnVars>>
    /\ UNCHANGED <<trace, past>>

\* line 328: current_preprint = api.preprint(preprint_id)
FetchDetail ==
    /\ pc = "detail"
    /\ trace' = Did("detail")
    /\ current_preprint' = ArticleRecord(preprint_id)
    /\ pc' = "files"
    /\ UNCHANGED <<envVars, runVars, loopVars, thumbnailURL, tweetText,
                   include_image, counterVars, exc, log, summary, fnVars>>
    /\ UNCHANGED past

\* lines 143-144: the request fails, raise_for_status raises
FetchDetailFails ==
    /\ pc = "detail"
    /\ trace' = Did("detail_failed")
    /\ Abort("HTTPError")
    /\ UNCHANGED <<envVars, runVars, loopVars, articleVars, counterVars, log,
                   summary, fnVars>>
    /\ UNCHANGED past

\* lines 332-360: api.files, get_preprint_image_url, prepare_tweet and the
\* test of its result
FetchFiles ==
    /\ pc = "files"
    /\ LET preprintURL == doiRootURL \o current_preprint.doi
           text == prepare_tweet(current_preprint.title,
                                 current_preprint.authors, preprintURL,
                                 current_preprint.tags)
       IN  /\ thumbnailURL' = get_preprint_image_url(ArticleFiles(preprint_id))
           /\ tweetText' = text
           /\ IF text = PyFalse
              THEN /\ trace' = Did("files") \o <<Event(preprint_id, "rejected")>>
                   /\ log' = Append(log, LogLine("NOTICE: Could not tweet preprint",
                                                 preprintURL, 0))
                   /\ preprints_tweeted_FAILED' = preprints_tweeted_FAILED + 1
                   /\ pc' = "commit"
              ELSE /\ trace' = Did("files")
                   /\ log' = Append(log, LogLine("Submitting to Twitter",
                                                 Str(preprint_id), 0))
                   /\ preprints_tweeted_FAILED' = preprints_tweeted_FAILED
                   /\ pc' = "ti_get"
    /\ include_image' = FALSE
    /\ UNCHANGED <<envVars, runVars, loopVars, current_preprint,
                   preprints_added, preprints_tweeted, exc, summary, fnVars>>
    /\ UNCHANGED past

FetchFilesFails ==
    /\ pc = "files"
    /\ trace' = Did("files_failed")
    /\ Abort("HTTPError")
    /\ UNCHANGED <<envVars, runVars, loopVars, articleVars, counterVars, log,
                   summary, fnVars>>
    /\ UNCHANGED past

(***************************************************************************)
(* tweet_image (lines 36-67), called at line 361.                          *)
(***************************************************************************)
\* lines 41-52: the image is requested when there is a URL
DownloadImage ==
    /\ pc = "ti_get"
    /\ IF Len(thumbnailURL) > 0
       THEN \E status_code \in {200, 404} :
                IF status_code = 200
                THEN /\ temp_png' = TRUE
                     /\ include_image' = TRUE
                     /\ log' = log
                     /\ trace' = Did("image_ok")
                ELSE /\ temp_png' = temp_png
                     /\ include_image' = FALSE
                     /\ trace' = Did("image_status")
                     /\ log' = Append(log, LogLine("Error, couldn't download image. Continue without.",
                                                   <<>>, 0))
       ELSE /\ temp_png' = temp_png
            /\ include_image' = FALSE
            /\ log' = log
            /\ UNCHANGED trace
    /\ pc' = "ti_post"
    /\ UNCHANGED <<repo, id_log_txt, tweets, runVars, loopVars,
                   current_preprint, thumbnailURL, tweetText, counterVars,
                   exc, summary, fnVars>>
    /\ UNCHANGED past

\* line 45: requests.get raises (no connection, timeout); nothing catches it
DownloadImageRaises ==
    /\ pc = "ti_get"
    /\ Len(thumbnailURL) > 0
    /\ trace' = Did("image_raised")
    /\ Abort("ConnectionError")
    /\ UNCHANGED <<envVars, runVars, loopVars, articleVars, counterVars, log,
                   summary, fnVars>>
    /\ UNCHANGED past

\* a post of the current preprint is on the timeline
Posted(kind) ==
    tweets' = [tweets EXCEPT ![preprint_id] =
                  IF kind = "media"
                  THEN [@ EXCEPT !.media = @ + 1]
                  ELSE [@ EXCEPT !.status = @ + 1]]

TweetSuccessful == LogLine("Tweet successful.", tweetText, Len(tweetText))

\* usetwitter not looked at: the post is made in a dry run too
PostTweetIgnoresFlag ==
    /\ pc = "ti_post"
    /\ IF include_image
       THEN /\ Posted("media")
            /\ trace' = Did("post_media")
            /\ temp_png' = FALSE
       ELSE /\ Posted("status")
            /\ trace' = Did("post_status")
            /\ temp_png' = temp_png
    /\ log' = Append(log, TweetSuccessful)
    /\ preprints_tweeted' = preprints_tweeted + 1
    /\ pc' = "commit"
    /\ UNCHANGED <<repo, id_log_txt, runVars, loopVars, articleVars,
                   preprints_added, preprints_tweeted_FAILED, exc, summary,
                   fnVars>>
    /\ UNCHANGED past

\* lines 54-67 and 362: the post, or the offline log; then the audit line
PostTweet ==
    /\ pc = "ti_post"
    /\ IF usetwitter
       THEN IF include_image
            THEN /\ Posted("media")
                 /\ trace' = Did("post_media")
                 /\ temp_png' = FALSE
                 /\ log' = Append(log, TweetSuccessful)
            ELSE /\ Posted("status")
                 /\ trace' = Did("post_status")
                 /\ temp_png' = temp_png
                 /\ log' = Append(log, TweetSuccessful)
       ELSE /\ tweets' = tweets
            /\ trace' = Did("offline")
            /\ temp_png' = temp_png
            /\ log' = log
                      \o <<LogLine("Offline-Tweeting due to user request", <<>>, 0)>>
                      \o (IF include_image
                          THEN <<LogLine("Tweet includes image", <<>>, 0)>>
                          ELSE <<>>)
                      \o <<TweetSuccessful>>
    /\ preprints_tweeted' = preprints_tweeted + 1
    /\ pc' = "commit"
    /\ UNCHANGED <<repo, id_log_txt, runVars, loopVars, articleVars,
                   preprints_added, preprints_tweeted_FAILED, exc, summary,
                   fnVars>>
    /\ UNCHANGED past

\* the error of the Twitter API caught around the call: the script goes on
\* to the commit as if the post had been made
PostTweetRaisesCaught ==
    /\ pc = "ti_post"
    /\ usetwitter
    /\ trace' = Did("post_raised")
    /\ log' = Append(log, TweetSuccessful)
    /\ preprints_tweeted' = preprints_tweeted + 1
    /\ pc' = "commit"
    /\ UNCHANGED <<envVars, runVars, loopVars, articleVars, preprints_added,
                   preprints_tweeted_FAILED, exc, summary, fnVars>>
    /\ UNCHANGED past

\* lines 56, 59: the Twitter API raises; nothing catches it
PostTweetRaises ==
    /\ pc = "ti_post"
    /\ usetwitter
    /\ Abort("TweepError")
    /\ trace' = Did("post_raised")
    /\ UNCHANGED <<envVars, runVars, loopVars, articleVars, counterVars, log,
                   summary, fnVars>>
    /\ UNCHANGED past

(***************************************************************************)
(* The commit and the pause (lines 365-374).                               *)
(***************************************************************************)
\* the line break left out
AppendIdNoNewline(f, idstr) == f \o idstr

\* the file opened with 'w': what it held is lost
AppendIdTruncates(f, idstr) == idstr \o <<NL>>

\* the line never reaches the file (written to a buffer that is not flushed)
AppendIdBuffered(f, idstr) == f

\* line 367: f.write(preprint_id + '\n') on the file opened for append
AppendId(f, idstr) == f \o idstr \o <<NL>>

\* the id of a preprint that could not be tweeted is not written
CommitOnlyTweeted ==
    /\ pc = "commit"
    /\ trace' = Did("commit")
    /\ id_log_txt' = IF tweetText = PyFalse THEN id_log_txt
                     ELSE AppendId(id_log_txt, Str(preprint_id))
    /\ log' = log \o <<LogLine("Committing ID to log...", <<>>, 0),
                       LogLine("Wrote to log", <<>>, current_preprint.id)>>
    /\ preprints_added' = preprints_added + 1
    /\ pc' = IF usetwitter THEN "sleep" ELSE "loop"
    /\ UNCHANGED <<repo, temp_png, tweets, runVars, loopVars, articleVars,
                   preprints_tweeted, preprints_tweeted_FAILED, exc, summary,
                   fnVars>>
    /\ UNCHANGED past

\* line 371 left out: the loop goes on without the pause
CommitNoPause ==
    /\ pc = "commit"
    /\ trace' = Did("commit")
    /\ id_log_txt' = AppendId(id_log_txt, Str(preprint_id))
    /\ log' = log \o <<LogLine("Committing ID to log...", <<>>, 0),
                       LogLine("Wrote to log", <<>>, current_preprint.id)>>
    /\ preprints_added' = preprints_added + 1
    /\ pc' = "loop"
    /\ UNCHANGED <<repo, temp_png, tweets, runVars, loopVars, articleVars,
                   preprints_tweeted, preprints_tweeted_FAILED, exc, summary,
                   fnVars>>
    /\ UNCHANGED past

\* lines 365-371: the id is appended to id_log.txt and counted
Commit ==
    /\ pc = "commit"
    /\ trace' = Did("commit")
    /\ id_log_txt' = AppendId(id_log_txt, Str(preprint_id))
    /\ log' = log \o <<LogLine("Committing ID to log...", <<>>, 0),
                       LogLine("Wrote to log", <<>>, current_preprint.id)>>
    /\ preprints_added' = preprints_added + 1
    /\ pc' = IF usetwitter THEN "sleep" ELSE "loop"
    /\ UNCHANGED <<repo, temp_png, tweets, runVars, loopVars, articleVars,
                   preprints_tweeted, preprints_tweeted_FAILED, exc, summary,
                   fnVars>>
    /\ UNCHANGED past

\* line 372: time.sleep(1800)
Sleep ==
    /\ pc = "sleep"
    /\ trace' = Did("sleep")
    /\ pc' = "loop"
    /\ UNCHANGED <<envVars, runVars, loopVars, articleVars, counterVars, exc,
                   log, summary, fnVars>>
    /\ UNCHANGED past

Next ==
    \/ Publish
    \/ \E live \in BOOLEAN : Startup(live)
    \/ \E live \in BOOLEAN : StartupAuthFails(live)
    \/ TakeSummary
    \/ ListingExhausted
    \/ ListingFails
    \/ WriteSummary
    \/ FetchDetail
    \/ FetchDetailFails
    \/ FetchFiles
    \/ FetchFilesFails
    \/ DownloadImage
    \/ DownloadImageRaises
    \/ PostTweet
    \/ PostTweetRaises
    \/ Commit
    \/ Sleep

Spec == Init /\ [][Next]_vars

(***************************************************************************)
(* The script with crashes: the process can be killed (a signal, a power   *)
(* cut, the machine going down) at any point of its main loop.  What is in *)
(* id_log.txt, what is on the timeline and temp.png stay as they are; all  *)
(* the rest is lost with the process.                                      *)
(***************************************************************************)
Running == pc \in {"loop", "detail", "files", "ti_get", "ti_post", "commit",
                   "sleep"}

Kill ==
    /\ Running
    /\ Abort("killed")
    /\ UNCHANGED <<envVars, runVars, loopVars, articleVars, counterVars, log,
                   summary, fnVars>>
    /\ UNCHANGED <<trace, past>>

NextCrash ==
    \/ Next
    \/ Kill

SpecCrash == Init /\ [][NextCrash]_vars

(***************************************************************************)
(* Reading the trace.                                                      *)
(***************************************************************************)
PostEvents == {"post_status", "post_media"}

\* calls for one preprint: detail, files, image and posting requests
CallEvents == {"detail", "detail_failed", "files", "files_failed", "image_ok",
               "image_status", "image_raised", "post_status", "post_media",
               "post_raised"}

ImageFailed == {"image_status", "image_raised"}

\* a run is under way, or has ended, after loading id_log
Loaded == pc \notin {"idle", "exit1"}

\* the text of the current preprint's line of id_log.txt
IdLine == Str(preprint_id) \o <<NL>>

\* the step adds to trace, and ev is the last it adds
Adds(ev) ==
    /\ Len(trace') > Len(trace)
    /\ trace'[Len(trace')].ev = ev

\* every id that doc has yielded in this run was in id_log
AllYieldedProcessed ==
    \A k \in DOMAIN trace :
        trace[k].ev = "summary" => InIdLog(Str(trace[k].id), id_log)

\* the processing of the current preprint has come to its end: prepare_tweet
\* gave False, or tweet_image has returned
Resolved ==
    /\ trace # <<>>
    /\ trace[Len(trace)].id = preprint_id
    /\ IF tweetText = PyFalse
       THEN trace[Len(trace)].ev = "rejected"
       ELSE /\ trace[Len(trace)].ev = (IF ~usetwitter THEN "offline"
                                       ELSE IF include_image THEN "post_media"
                                       ELSE "post_status")
            /\ log[Len(log)] = TweetSuccessful

(***************************************************************************)
(* C1: over all runs sharing one id_log.txt, every preprint is posted      *)
(* (with or without image) at most once.  The code breaks it: a page       *)
(* boundary moved by a new preprint yields an id twice in one run, and     *)
(* id_log is never updated during the run.                                 *)
(***************************************************************************)
C1_AnnouncedAtMostOnce ==
    \A a \in ArticleIds : tweets[a].status + tweets[a].media <= 1

(***************************************************************************)
(* C2: a run in which every id that doc has yielded was in the id log when *)
(* the run started makes no call but the listing's, posts nothing and      *)
(* appends nothing to id_log.txt.                                          *)
(***************************************************************************)
C2_Idempotent ==
    (Loaded /\ AllYieldedProcessed) =>
        /\ \A k \in DOMAIN trace : trace[k].ev = "summary"
        /\ tweets = past.tweets
        /\ LoadIdLog(id_log_txt) = id_log
        /\ preprints_added = 0
        /\ preprints_tweeted = 0

\* a live second run over a listing that the first run processed in full has ended
C2_Witness ==
    /\ pc = "done"
    /\ usetwitter
    /\ runs = 2
    /\ AllYieldedProcessed
    /\ Len(trace) = numberPreprints
    /\ Cardinality(past.committed) = numberPreprints
    /\ \E a \in ArticleIds : tweets[a].status + tweets[a].media = 1

(***************************************************************************)
(* C3: a run in which no external call fails takes every summary of the    *)
(* listing, stops when the listing is exhausted, and then writes the run   *)
(* summary and ends: so a run never ends on anything but a failed call,    *)
(* and when the summary is written the listing has nothing left to yield.  *)
(* The code breaks it: the loop runs sys.getsizeof(doc) times.             *)
(***************************************************************************)
C3_RunDrainsListing ==
    [][/\ pc' = "aborted" =>
            exc' \in {"HTTPError", "ConnectionError", "TweepError"}
       /\ (pc # "done" /\ pc' = "done") =>
            /\ summary' # <<>>
            /\ Available(doc, repo) = <<>>]_vars

(***************************************************************************)
(* C4: id_log.txt changes only by the append of the current preprint's id, *)
(* made after its processing has resolved (tweet_image has returned, or    *)
(* prepare_tweet gave False); and when the loop takes the next summary     *)
(* after a new preprint, that preprint's line is the last of the file.     *)
(***************************************************************************)
C4_CommitAfterResolution ==
    [][/\ id_log_txt' # id_log_txt =>
            /\ Resolved
            /\ id_log_txt' = id_log_txt \o IdLine
       /\ (i' = i + 1 /\ i > 0 /\ ~InIdLog(Str(preprint_id), id_log)) =>
            EndsWith(id_log_txt, IdLine)]_vars

\* the loop has taken the summary after a preprint it posted and committed
C4_Witness ==
    /\ pc = "detail"
    /\ i >= 2
    /\ preprints_added >= 1
    /\ preprints_tweeted >= 1
    /\ usetwitter
    /\ Len(id_log_txt) > Len(IdLine)

(***************************************************************************)
(* C5: when prepare_tweet gives False for a new preprint, nothing is       *)
(* posted for it, preprints_tweeted_FAILED goes up by one, its id is still *)
(* appended to id_log.txt, and no later run makes a call for it or finds   *)
(* it rejected again.                                                      *)
(***************************************************************************)
C5_RejectedIsCommittedNotPosted ==
    [][/\ Adds("rejected") =>
            /\ preprints_tweeted_FAILED' = preprints_tweeted_FAILED + 1
            /\ preprints_tweeted' = preprints_tweeted
            /\ tweets' = tweets
            /\ pc' = "commit"
       /\ (pc = "commit" /\ tweetText = PyFalse /\ pc' # "commit") =>
            /\ id_log_txt' = id_log_txt \o IdLine
            /\ tweets' = tweets
            /\ pc' \in {"loop", "sleep"}
       /\ \A ev \in CallEvents \cup {"rejected"} :
            Adds(ev) => trace'[Len(trace')].id \notin past.rejected]_vars

\* a later run has skipped a preprint that an earlier run rejected and committed
C5_Witness ==
    /\ runs = 2
    /\ pc = "loop"
    /\ trace # <<>>
    /\ trace[Len(trace)].ev = "summary"
    /\ trace[Len(trace)].id \in past.rejected
    /\ trace[Len(trace)].id \in past.committed

(***************************************************************************)
(* prepare_tweet applied on its own: the arguments are drawn from titles   *)
(* of every length around the budget, one or more authors, tag lists and   *)
(* URLs shorter and longer than the 23 characters they count for.          *)
(***************************************************************************)
\* the longest title tried
MaxTitleLen == 250
\* how many title lengths below MaxTitleLen are tried
TitleLenSpan == 45

TitleLens == {0} \cup ((MaxTitleLen - TitleLenSpan)..MaxTitleLen)

ComposeInputs ==
    [title       : {Rep("t", n) : n \in TitleLens},
     authors     : {<<Smith>>, <<Smith, Jones>>, <<Jones, Smith>>},
     preprintURL : {doiRootURL \o <<"1">>,
                    doiRootURL \o <<"1", "0", ".", "1", "/", "a", "b", "c", "d">>},
     tags        : {<<>>, <<TagNMR>>, <<TagOrganic, TagNMR>>,
                    <<TagOrganic, TagCatalysis, TagNMR>>}]

InitCompose ==
    /\ InitProgram
    /\ fnArgs \in ComposeInputs
    /\ fnResult = [done |-> FALSE, value |-> <<>>]

ApplyCompose ==
    /\ ~fnResult.done
    /\ fnResult' = [done  |-> TRUE,
                    value |-> prepare_tweet(fnArgs.title, fnArgs.authors,
                                            fnArgs.preprintURL, fnArgs.tags)]
    /\ UNCHANGED <<envVars, runVars, loopVars, articleVars, counterVars, pc,
                   exc, log, summary, trace, past, fnArgs>>

SpecCompose == InitCompose /\ [][ApplyCompose]_vars

(***************************************************************************)
(* C6: prepare_tweet returns False, or a text that ends with two line      *)
(* breaks and the URL and whose length, with the URL counted as 23         *)
(* characters, is at most 280.                                             *)
(***************************************************************************)
C6_CountedLengthWithinLimit ==
    (fnResult.done /\ fnResult.value # PyFalse) =>
        /\ EndsWith(fnResult.value, <<NL, NL>> \o fnArgs.preprintURL)
        /\ Len(fnResult.value) - Len(fnArgs.preprintURL) + 23 <= 280

\* a text of exactly 280 counted characters, with a URL longer than 23, is returned
C6_Witness ==
    /\ fnResult.done
    /\ fnResult.value # PyFalse
    /\ Len(fnArgs.preprintURL) > 23
    /\ Len(fnResult.value) - Len(fnArgs.preprintURL) + 23 = 280

\* False is returned for a head one character over the budget
C6_WitnessRejected ==
    /\ fnResult.done
    /\ fnResult.value = PyFalse
    /\ Len(TweetHead(fnArgs.title, fnArgs.authors)) = 256

(***************************************************************************)
(* C7: in a run started with --notwitter no posting call is made, with or  *)
(* without a downloaded image: the run makes no posting call and leaves    *)
(* the timeline as it found it; and when tweet_image has returned it has   *)
(* logged the offline notice, the image notice when an image was           *)
(* downloaded, and the text with its length.                               *)
(***************************************************************************)
C7_DryRunNeverPosts ==
    (Loaded /\ ~usetwitter) =>
        /\ \A k \in DOMAIN trace : trace[k].ev \notin PostEvents \cup {"post_raised"}
        /\ tweets = past.tweets
        /\ (pc = "commit" /\ tweetText # PyFalse) =>
               /\ trace[Len(trace)] = Event(preprint_id, "offline")
               /\ log[Len(log)] = LogLine("Tweet successful.", tweetText, Len(tweetText))
               /\ \E k \in DOMAIN log :
                      log[k].msg = "Offline-Tweeting due to user request"
               /\ include_image => log[Len(log) - 1].msg = "Tweet includes image"

\* tweet_image has returned in a dry run with the image downloaded
C7_Witness ==
    /\ pc = "commit"
    /\ ~usetwitter
    /\ tweetText # PyFalse
    /\ include_image
    /\ temp_png
    /\ log[Len(log) - 1].msg = "Tweet includes image"

(***************************************************************************)
(* C8: when the image request fails, by its status or by an exception,     *)
(* tweet_image logs a warning and goes on to post the text alone: the run  *)
(* does not end there, and a live run's next call is the text-only post.   *)
(* The code breaks it: nothing catches an exception of requests.get.       *)
(***************************************************************************)
C8_ImageFailureDegrades ==
    /\ \A k \in DOMAIN trace :
           (trace[k].ev \in ImageFailed /\ k = Len(trace)) =>
               /\ pc = "ti_post"
               /\ ~include_image
               /\ log[Len(log)].msg = "Error, couldn't download image. Continue without."
    /\ \A k \in DOMAIN trace :
           (trace[k].ev \in ImageFailed /\ usetwitter /\ k < Len(trace)) =>
               trace[k + 1].ev \in {"post_status", "post_raised"}

(***************************************************************************)
(* C9: the detail, files, image and posting calls are made only for        *)
(* summaries whose id is not in the dedup store: no call is made for an id *)
(* that has been committed before, by an earlier run or by this one.  The  *)
(* code breaks it: an id committed earlier in the same run is in           *)
(* id_log.txt but not in id_log.                                           *)
(***************************************************************************)
C9_CallsOnlyForNew ==
    \A k \in DOMAIN trace :
        trace[k].ev \in CallEvents =>
            /\ trace[k].id \notin past.committed
            /\ \A j \in 1..(k - 1) :
                   ~(trace[j].ev = "commit" /\ trace[j].id = trace[k].id)

(***************************************************************************)
(* C10: once an id has been appended to id_log.txt, the list loaded from   *)
(* the file contains it: at any moment for a fresh load, and in id_log of  *)
(* every later run, which loaded it at its start.                          *)
(***************************************************************************)
C10_DurableRoundTrip ==
    /\ \A a \in past.committed \cup IdsWith("commit") :
           InIdLog(Str(a), LoadIdLog(id_log_txt))
    /\ Loaded => \A a \in past.committed : InIdLog(Str(a), id_log)

\* a second run has loaded a log of two ids, of one and of two digits
C10_Witness ==
    /\ runs = 2
    /\ pc = "loop"
    /\ id_log = <<Str(10), Str(9)>>
    /\ past.committed = {9, 10}

(***************************************************************************)
(* Reading the log of the current preprint.                                *)
(***************************************************************************)
\* the script is inside tweet_image
InTweetImage == pc \in {"ti_get", "ti_post"}

\* how many of the lines are the line 67 audit line
AuditLines(lines) ==
    Cardinality({k \in DOMAIN lines : lines[k].msg = "Tweet successful."})

(***************************************************************************)
(* C11: in a live run, when the image was downloaded to temp.png, the file *)
(* is gone once the post with the image is over, whether the call returned *)
(* or raised: no way out of tweet_image leaves temp.png behind.  The code  *)
(* breaks it: os.remove follows update_with_media outside any try/finally. *)
(***************************************************************************)
C11_TempFileReleased ==
    [][(pc = "ti_post" /\ usetwitter /\ include_image /\ pc' # "ti_post") =>
           ~temp_png']_vars

(***************************************************************************)
(* C12: every call of tweet_image writes exactly one audit line, with the  *)
(* text and its length, as its last log line, however the call ends: live  *)
(* or dry run, with or without image, image request failed or not, post    *)
(* succeeded or failed.  The code breaks it: line 67 is not reached when   *)
(* the post (or the image request) raises.                                 *)
(***************************************************************************)
C12_OneAuditLine ==
    [][(InTweetImage /\ ~InTweetImage') =>
           /\ AuditLines(log') = 1
           /\ log'[Len(log')] = TweetSuccessful]_vars

(***************************************************************************)
(* get_preprint_image_url applied on its own: the argument is a value that *)
(* is a list or not, holding up to MaxFiles file records whose names end   *)
(* in an image extension (in lower, upper or mixed case) or not, link-only *)
(* or not; the download URL of a record tells its place in the list.       *)
(***************************************************************************)
\* the longest file list tried
MaxFiles == 3

FileNames == {<<"a", ".", "p", "n", "g">>,
              <<"b", ".", "P", "N", "G">>,
              <<"c", ".", "J", "p", "g">>,
              <<"e", ".", "p", "d", "f">>,
              <<"f", ".", "j", "p", "e", "g">>,
              <<"p", "n", "g">>}

FileLists == UNION {[1..n -> FileNames \X BOOLEAN] : n \in 0..MaxFiles}

AsFiles(isList, f) ==
    [isList |-> isList,
     items  |-> [k \in DOMAIN f |-> FileRec(f[k][1], f[k][2], <<"u">> \o Str(k))]]

ResolveInputs == {AsFiles(isList, f) : isList \in BOOLEAN, f \in FileLists}

InitResolve ==
    /\ InitProgram
    /\ fnArgs \in [files : ResolveInputs]
    /\ fnResult = [done |-> FALSE, value |-> <<>>]

ApplyResolve ==
    /\ ~fnResult.done
    /\ fnResult' = [done  |-> TRUE,
                    value |-> get_preprint_image_url(fnArgs.files)]
    /\ UNCHANGED <<envVars, runVars, loopVars, articleVars, counterVars, pc,
                   exc, log, summary, trace, past, fnArgs>>

SpecResolve == InitResolve /\ [][ApplyResolve]_vars

\* the two characters are the same letter, in either case
SameLetter(c, d) ==
    \/ c = d
    \/ \E k \in 1..26 : {c, d} = {UpperCase[k], LowerCase[k]}

\* the name ends in the extension, whatever the case of its letters
NameEndsIn(name, ext) ==
    /\ Len(name) >= Len(ext)
    /\ \A k \in 1..Len(ext) :
           SameLetter(name[Len(name) - Len(ext) + k], ext[k])

\* the record is not link-only and its name is that of a .png or .jpg image
IsImageRecord(rec) ==
    /\ ~rec.is_link_only
    /\ \/ NameEndsIn(rec.name, <<".", "p", "n", "g">>)
       \/ NameEndsIn(rec.name, <<".", "j", "p", "g">>)

(***************************************************************************)
(* C13: get_preprint_image_url returns the download URL of the first       *)
(* record of the list that is not link-only and whose name ends, in any    *)
(* case, in .png or .jpg; it returns the empty string when no record is    *)
(* such, and when its argument is no list.                                 *)
(***************************************************************************)
C13_FirstQualifyingImage ==
    fnResult.done =>
        LET items == fnArgs.files.items
            images == {k \in DOMAIN items : IsImageRecord(items[k])}
        IN  IF ~fnArgs.files.isList \/ images = {}
            THEN fnResult.value = <<>>
            ELSE \E k \in images :
                     /\ \A j \in images : k <= j
                     /\ fnResult.value = items[k].download_url

\* the third record is returned: the first is a linked image, the second no
\* image, the third an image with its extension in upper case
C13_Witness ==
    /\ fnResult.done
    /\ fnArgs.files.isList
    /\ Len(fnArgs.files.items) = 3
    /\ fnArgs.files.items[1].is_link_only
    /\ fnArgs.files.items[1].name = <<"a", ".", "p", "n", "g">>
    /\ fnArgs.files.items[2].name = <<"f", ".", "j", "p", "e", "g">>
    /\ fnArgs.files.items[3].name = <<"b", ".", "P", "N", "G">>
    /\ fnResult.value = <<"u", "3">>

(***************************************************************************)
(* The hashtags as they are to be, written out letter by letter.           *)
(***************************************************************************)
ExpectedHashtag(tag) ==
    CASE tag = TagOrganic ->
           <<" ", "#", "o", "r", "g", "a", "n", "i", "c", "-",
             "c", "h", "e", "m", "i", "s", "t", "r", "y">>
      [] tag = TagCatalysis ->
           <<" ", "#", "c", "a", "t", "a", "l", "y", "s", "i", "s">>
      [] tag = TagNMR ->
           <<" ", "#", "n", "m", "r">>

\* the hashtags of those of the first k tags that keep marks, in order
RECURSIVE JoinKept(_, _, _)
JoinKept(tags, keep, k) ==
    IF k = 0 THEN <<>>
    ELSE JoinKept(tags, keep, k - 1)
             \o (IF keep[k] THEN ExpectedHashtag(tags[k]) ELSE <<>>)

(***************************************************************************)
(* C14: the text prepare_tweet returns is the head, then the hashtags of a *)
(* subsequence of the tags in their order (each tag in lower case, its     *)
(* spaces turned to hyphens, after " #"), then the URL; and a tag is in    *)
(* that subsequence exactly when the text before it and its hashtag are at *)
(* most 255 characters together, whether or not an earlier tag was left    *)
(* out.                                                                    *)
(***************************************************************************)
C14_HashtagsGreedyInOrder ==
    (fnResult.done /\ fnResult.value # PyFalse) =>
        LET head == TweetHead(fnArgs.title, fnArgs.authors)
            tags == fnArgs.tags
        IN  \E keep \in [DOMAIN tags -> BOOLEAN] :
                /\ fnResult.value = head \o JoinKept(tags, keep, Len(tags))
                                         \o <<NL, NL>> \o fnArgs.preprintURL
                /\ \A k \in DOMAIN tags :
                       keep[k] <=>
                           Len(head) + Len(JoinKept(tags, keep, k - 1))
                               + Len(ExpectedHashtag(tags[k])) <= 255

\* the first of three tags did not fit and is left out, the two after it are
\* appended and fill the budget to its last character
C14_Witness ==
    /\ fnResult.done
    /\ fnArgs.tags = <<TagOrganic, TagCatalysis, TagNMR>>
    /\ Len(TweetHead(fnArgs.title, fnArgs.authors)) = 239
    /\ fnResult.value = TweetHead(fnArgs.title, fnArgs.authors)
                            \o ExpectedHashtag(TagCatalysis)
                            \o ExpectedHashtag(TagNMR)
                            \o <<NL, NL>> \o fnArgs.preprintURL

\* the calls of the Twitter API that post
PostingCalls == PostEvents \cup {"post_raised"}

(***************************************************************************)
(* C15: in a live run the pause of line 372 follows the commit of every    *)
(* new preprint, tweeted or not, before the next summary is taken, so that *)
(* a pause lies between any two posting calls of the run; a run started    *)
(* with --notwitter never pauses.                                          *)
(***************************************************************************)
C15_PauseBetweenPosts ==
    /\ usetwitter =>
           \A k \in DOMAIN trace :
               trace[k].ev = "commit" =>
                   IF k = Len(trace) THEN pc = "sleep"
                   ELSE trace[k + 1].ev = "sleep"
    /\ \A j, k \in DOMAIN trace :
           (j < k /\ trace[j].ev \in PostingCalls
                  /\ trace[k].ev \in PostingCalls) =>
               \E m \in (j + 1)..(k - 1) : trace[m].ev = "sleep"
    /\ ~usetwitter =>
           /\ pc # "sleep"
           /\ \A k \in DOMAIN trace : trace[k].ev # "sleep"

\* a live run has posted twice, and paused after a preprint it could not tweet
C15_Witness ==
    /\ usetwitter
    /\ pc = "commit"
    /\ preprints_tweeted = 2
    /\ \E k \in 1..(Len(trace) - 2) :
           /\ trace[k].ev = "rejected"
           /\ trace[k + 2].ev = "sleep"

(***************************************************************************)
(* C16: when the posting call raises, the run ends there with that error:  *)
(* nothing is posted or appended to id_log.txt by the failed call, and     *)
(* after it the run takes no summary, makes no call and writes nothing;    *)
(* the next thing to happen is the start of a new process.                 *)
(***************************************************************************)
C16_PostFailureEndsRun ==
    [][/\ Adds("post_raised") =>
            /\ pc' = "aborted"
            /\ exc' = "TweepError"
            /\ id_log_txt' = id_log_txt
            /\ tweets' = tweets
            /\ preprints_added' = preprints_added
       /\ (pc = "aborted" /\ exc = "TweepError") =>
            /\ trace' = <<>>
            /\ i' = 0
            /\ pc' \in {"loop", "exit1"}
            /\ id_log_txt' = id_log_txt
            /\ tweets' = tweets]_vars

\* the post has failed for a preprint that is not in id_log.txt, after the
\* run committed another, and the run has ended with summaries left to take
C16_Witness ==
    /\ pc = "aborted"
    /\ exc = "TweepError"
    /\ trace[Len(trace)] = Event(preprint_id, "post_raised")
    /\ preprints_added >= 1
    /\ ~InIdLog(Str(preprint_id), LoadIdLog(id_log_txt))
    /\ i < numberPreprints
    /\ Available(doc, repo) # <<>>

(***************************************************************************)
(* C17: when api.preprint or api.files fails for a preprint, the failure   *)
(* is logged, the id is not appended to id_log.txt, and the loop goes on   *)
(* to the next summary; a run that later finds the id missing from its     *)
(* id_log takes the preprint as new.  The code breaks it: nothing catches  *)
(* the HTTPError of raise_for_status, and the run ends.                    *)
(***************************************************************************)
C17_FetchFailureSkipsArticle ==
    [][/\ (Adds("detail_failed") \/ Adds("files_failed")) =>
            /\ pc' = "loop"
            /\ exc' = "none"
            /\ Len(log') > Len(log)
            /\ id_log_txt' = id_log_txt
       /\ (Adds("summary") /\ ~InIdLog(Str(preprint_id'), id_log')) =>
            pc' = "detail"]_vars

(***************************************************************************)
(* C18: within one run, once an id has been committed, a summary that the  *)
(* listing yields later with the same id is skipped (the loop goes on to   *)
(* the next summary) and the preprint is not posted again.  The code       *)
(* breaks it: line 314 tests the list loaded at start-up, to which the     *)
(* commit of line 367 adds nothing.                                        *)
(***************************************************************************)
C18_MembershipReflectsCommits ==
    \A j \in DOMAIN trace :
        trace[j].ev = "commit" =>
            \A k \in (j + 1)..Len(trace) :
                trace[k].id = trace[j].id =>
                    /\ trace[k].ev \in {"sleep", "summary"}
                    /\ trace[k].ev = "summary" =>
                           IF k = Len(trace) THEN pc # "detail"
                           ELSE trace[k + 1].ev = "summary"

(***************************************************************************)
(* Posts and the durable log.                                              *)
(***************************************************************************)
\* how often the preprint is on the timeline t
Posts(t, a) == t[a].status + t[a].media

\* the preprints posted, by any run, whose id is not in id_log.txt
Unlogged ==
    LET durable == LoadIdLog(id_log_txt)
    IN  {a \in ArticleIds : /\ Posts(tweets, a) > 0
                            /\ ~InIdLog(Str(a), durable)}

\* those of the preprints in the set that the current run posted
ByRun(posted) == {a \in posted : Posts(tweets, a) > Posts(past.tweets, a)}

\* the preprints that the current run posted and that an earlier run had posted
RePosted ==
    {a \in ArticleIds : /\ Posts(past.tweets, a) > 0
                        /\ Posts(tweets, a) > Posts(past.tweets, a)}

C20_CountersAgree ==
    pc \in {"loop", "done"} =>
        /\ preprints_added = preprints_tweeted + preprints_tweeted_FAILED
        /\ preprints_added = Len(FileLines(id_log_txt)) - Len(id_log)
        /\ pc = "done" =>
               /\ summary = <<preprints_added, preprints_tweeted,
                              preprints_tweeted_FAILED>>
               /\ summary[1] = summary[2] + summary[3]

\* a live run has ended after two preprints tweeted and one that could not be
C20_Witness ==
    /\ pc = "done"
    /\ usetwitter
    /\ summary = <<3, 2, 1>>
    /\ Len(FileLines(id_log_txt)) = Len(id_log) + 3

=============================================================================
